---- MODULE Spec2Model ----
(***************************************************************************)
(* Model of the countdown engine of zentick,                               *)
(* src/src/composables/useRobustTimer.ts (useRobustTimer).                 *)
(*                                                                         *)
(* Time is the value of Date.now() in milliseconds.  The host is modelled  *)
(* by the clock, the document.hidden flag and the set of timeouts created  *)
(* by window.setTimeout that have neither fired nor been cleared.  Every   *)
(* handler of the engine (start, pause, stop, reset, the timeout callback, *)
(* the visibilitychange listener, the unmount hook) is one action.         *)
(*                                                                         *)
(* Spec is the engine on a host where a handler reads one value of         *)
(* Date.now(); under SpecDrift the clock may also advance between the      *)
(* reads of one handler (start, tick and scheduleNext each read it).       *)
(***************************************************************************)
EXTENDS Integers, FiniteSets, Sequences, TLC

\* ------------------------------------------------------------------ bounds
\* resolution of the modelled clock: instants per second
StepsPerSecond == 2
\* the modelled clock stops after this many instants
MaxInstants == 4
\* longest configured duration, in clock instants
MaxDurationSteps == 4
\* how many instants the clock may advance between two Date.now() reads of
\* one handler
MaxSkew == 1
\* most timeouts outstanding at once
MaxPending == 2

\* ------------------------------------------------------- program constants
\* the second boundary of scheduleNext: (left % 1000) || 1000
SecondMs == 1000

Step == SecondMs \div StepsPerSecond
Epoch == Step
MaxClock == Epoch + MaxInstants * Step
Durations == {k * Step : k \in 1..MaxDurationSteps}
Null == -1

\* durations the options type (durationMs: number) admits besides the
\* positive ones: zero, and a negative one that keeps now + durationMs
\* clear of 0 and of Null on the modelled clock
NonPositiveDurations == {0, 0 - (MaxClock + Step)}

\* the view's constant 30 * 60 * 1000, scaled to the modelled clock: a whole
\* number of seconds, two of them
TIMER_DURATION_MS == 2 * SecondMs

\* hosts: a page (document with visibilitychange events), a page whose
\* document never dispatches visibilitychange, and a host without a
\* document object
Hosts == {"page", "silent", "bare"}

VARIABLES
    durationMs,         \* options.durationMs
    remainingMs,        \* remainingMs.value
    isRunning,          \* isRunning.value
    isPaused,           \* isPaused.value
    deadline,           \* let deadline: number | null
    timeoutId,          \* let timeoutId: number | null
    pausedRemainingMs,  \* let pausedRemainingMs: number | null
    pending,            \* host: timeouts set and neither fired nor cleared
    clock,              \* host: Date.now()
    hidden,             \* host: document.hidden
    drift,              \* host: instants Date.now() may advance inside one handler
    host,               \* host: the kind of environment the engine is built in
    thrown,             \* useRobustTimer(options) threw instead of returning
    mounted,            \* the owning component is mounted (listener subscribed)
    onCompleteCalls,    \* calls of onComplete since the last start() from not-paused
    startedAt,          \* Date.now() read by the start() of the running segment
    ranMs,              \* time run in the earlier segments of the current cycle
    tickNow,            \* Date.now() read by the last tick() of the running segment
    stopped,            \* stop()/reset() was the last handler to run
    restarted,          \* the cycle was begun by start() in the completed state
    \* src/src/views/TimerView.vue, the view with its own interval countdown
    viewRemainingMs,    \* remainingMs.value
    viewIsRunning,      \* isRunning.value
    intervalId,         \* let intervalId: number | null
    intervalDue,        \* host: when the interval's callback is next due
    viewMounted,        \* the view is mounted
    viewStartedAt,      \* clock at the start() of the running countdown
    viewTickNow         \* clock at the last interval callback of that countdown

engine == <<remainingMs, isRunning, isPaused, deadline, timeoutId,
            pausedRemainingMs, pending>>
vars == <<durationMs, remainingMs, isRunning, isPaused, deadline, timeoutId,
          pausedRemainingMs, pending, clock, hidden, drift, host, thrown,
          mounted, onCompleteCalls, startedAt, ranMs, tickNow, stopped,
          restarted, viewRemainingMs, viewIsRunning, intervalId, intervalDue, viewMounted,
          viewStartedAt, viewTickNow>>

\* the variables of src/src/views/TimerView.vue
view == <<viewRemainingMs, viewIsRunning, intervalId, intervalDue, viewMounted,
          viewStartedAt, viewTickNow>>

\* the variables of the engine and its host, the clock apart
engineSide == <<durationMs, engine, hidden, drift, host, thrown, mounted,
                onCompleteCalls, startedAt, ranMs, tickNow, stopped, restarted>>

\* ---------------------------------------------------------------- helpers
Max(a, b) == IF a >= b THEN a ELSE b

\* the values a later Date.now() of the same handler can return
Nows(c) == {n \in {c + k * Step : k \in 0..drift} : n <= MaxClock}

\* the engine's closure state as one record, so that the functions of the
\* source can be composed the way the source calls them
Eng == [remainingMs |-> remainingMs, isRunning |-> isRunning,
        isPaused |-> isPaused, deadline |-> deadline, timeoutId |-> timeoutId,
        pausedRemainingMs |-> pausedRemainingMs, pending |-> pending,
        calls |-> onCompleteCalls, tickNow |-> tickNow]

\* window.setTimeout hands out an id no outstanding timeout and no id the
\* engine still holds is using
NewId(e) ==
    CHOOSE i \in 1..(MaxPending + 2) :
        /\ i # e.timeoutId
        /\ \A t \in e.pending : t.id # i
        /\ \A j \in 1..(i - 1) : j = e.timeoutId \/ \E t \in e.pending : t.id = j

\* JavaScript truthiness of `deadline`: null and 0 are falsy
Falsy(d) == d = Null \/ d = 0

\* ------------------------------------------------------ the engine's code
clearTimer(e) ==
    IF e.timeoutId # Null
    THEN [e EXCEPT !.pending = {t \in e.pending : t.id # e.timeoutId},
                   !.timeoutId = Null]
    ELSE e

complete(e) ==
    [clearTimer(e) EXCEPT !.isRunning = FALSE, !.isPaused = FALSE,
                          !.remainingMs = 0, !.calls = e.calls + 1]

\* scheduleNext that sets no timeout
scheduleNextNever(e, now) == e

\* now: the Date.now() read by scheduleNext
scheduleNext(e, now) ==
    IF Falsy(e.deadline) THEN e
    ELSE LET left == Max(0, e.deadline - now)
             nextTickDelay == IF left % SecondMs # 0 THEN left % SecondMs
                              ELSE SecondMs
             id == NewId(e)
         IN [e EXCEPT !.timeoutId = id,
                      !.pending = e.pending \cup
                          {[id |-> id, due |-> now + nextTickDelay,
                            stale |-> FALSE]}]

\* tick as an interval counter: one second less per call
tickCounting(e, now1, now2) ==
    IF Falsy(e.deadline) THEN e
    ELSE LET left == Max(0, e.remainingMs - SecondMs)
             e1 == [e EXCEPT !.remainingMs = left, !.tickNow = now1]
         IN IF left <= 0 THEN complete(e1) ELSE scheduleNext(e1, now2)

\* now1: the Date.now() read by tick, now2: the one read by scheduleNext
tick(e, now1, now2) ==
    IF Falsy(e.deadline) THEN e
    ELSE LET left == Max(0, e.deadline - now1)
             e1 == [e EXCEPT !.remainingMs = left, !.tickNow = now1]
         IN IF left <= 0 THEN complete(e1) ELSE scheduleNext(e1, now2)

\* the listener without the re-sync: the pending timeout is left to do it
handleVisibilityChangeWaits(e, hid, now1, now2) == e

\* the listener without the document.hidden test: it re-syncs on hiding too
handleVisibilityChangeAnySignal(e, hid, now1, now2) ==
    IF ~e.isRunning THEN e ELSE tick(e, now1, now2)

\* hid: document.hidden when the listener runs
handleVisibilityChange(e, hid, now1, now2) ==
    IF hid \/ ~e.isRunning THEN e ELSE tick(e, now1, now2)

\* start that always starts from the full duration
startFull(e, now0, now1, now2) ==
    IF e.isRunning THEN e
    ELSE tick([e EXCEPT !.deadline = now0 + durationMs,
                        !.isRunning = TRUE, !.isPaused = FALSE,
                        !.pausedRemainingMs = Null], now1, now2)

\* start that leaves the paused flag as it was
startKeepsPaused(e, now0, now1, now2) ==
    IF e.isRunning THEN e
    ELSE LET startDuration == IF e.pausedRemainingMs # Null
                              THEN e.pausedRemainingMs ELSE durationMs
         IN tick([e EXCEPT !.deadline = now0 + startDuration,
                           !.isRunning = TRUE,
                           !.pausedRemainingMs = Null], now1, now2)

\* now0: the Date.now() read by start
start(e, now0, now1, now2) ==
    IF e.isRunning THEN e
    ELSE LET startDuration == IF e.pausedRemainingMs # Null
                              THEN e.pausedRemainingMs ELSE durationMs
         IN tick([e EXCEPT !.deadline = now0 + startDuration,
                           !.isRunning = TRUE, !.isPaused = FALSE,
                           !.pausedRemainingMs = Null], now1, now2)

\* pause that saves the configured duration instead of the remaining time
pauseFull(e) ==
    IF ~e.isRunning THEN e
    ELSE [clearTimer(e) EXCEPT !.pausedRemainingMs = durationMs,
                               !.isRunning = FALSE, !.isPaused = TRUE,
                               !.deadline = Null]

pause(e) ==
    IF ~e.isRunning THEN e
    ELSE [clearTimer(e) EXCEPT !.pausedRemainingMs = e.remainingMs,
                               !.isRunning = FALSE, !.isPaused = TRUE,
                               !.deadline = Null]

\* stop that forgets to restore the full duration
stopKeepsRemaining(e) ==
    [clearTimer(e) EXCEPT !.isRunning = FALSE, !.isPaused = FALSE,
                          !.deadline = Null, !.pausedRemainingMs = Null]

stop(e) ==
    [clearTimer(e) EXCEPT !.isRunning = FALSE, !.isPaused = FALSE,
                          !.deadline = Null, !.pausedRemainingMs = Null,
                          !.remainingMs = durationMs]

reset(e) == stop(e)

\* ------------------------------------------------------------ transitions
\* the engine is in the completed state of the state machine
Completed == ~isRunning /\ ~isPaused /\ remainingMs = 0

\* the engine's variables take the values of record e
Commit(e) ==
    /\ remainingMs' = e.remainingMs
    /\ isRunning' = e.isRunning
    /\ isPaused' = e.isPaused
    /\ deadline' = e.deadline
    /\ timeoutId' = e.timeoutId
    /\ pausedRemainingMs' = e.pausedRemainingMs
    /\ pending' = e.pending

\* timeouts that outlive a pause()/stop() were set before it
MarkStale(ts) == {[t EXCEPT !.stale = TRUE] : t \in ts}

\* the last Date.now() a handler read: now2 when scheduleNext set a timeout
\* (old: the timeouts outstanding when tick was entered)
ClockAfter(old, e, now1, now2) ==
    IF e.pending \subseteq old THEN now1 ELSE now2

\* the state after useRobustTimer({durationMs, onComplete}) has run on a host
\* of hosts with a duration of ds: the refs and closure variables are set, then
\* document.addEventListener is called, which throws a ReferenceError where
\* there is no document, before onUnmounted is registered and the API returned
Built(hosts, ds) ==
    /\ host \in hosts
    /\ thrown = (host = "bare")
    /\ durationMs \in ds
    /\ remainingMs = durationMs
    /\ isRunning = FALSE
    /\ isPaused = FALSE
    /\ deadline = Null
    /\ timeoutId = Null
    /\ pausedRemainingMs = Null
    /\ pending = {}
    /\ clock = Epoch
    /\ hidden = FALSE
    /\ mounted = ~thrown
    /\ onCompleteCalls = 0
    /\ startedAt = Null
    /\ ranMs = Null
    /\ tickNow = Null
    /\ stopped = FALSE
    /\ restarted = FALSE
    /\ viewRemainingMs = TIMER_DURATION_MS
    /\ viewIsRunning = FALSE
    /\ intervalId = Null
    /\ intervalDue = Null
    /\ viewMounted = TRUE
    /\ viewStartedAt = Null
    /\ viewTickNow = Null

\* the engine as the application builds it: on a page, with a positive duration
Constructed == Built({"page"}, Durations)

\* every handler reads one value of Date.now()
Init == Constructed /\ drift = 0

\* any duration the options type admits
InitAnyDuration == Built({"page"}, Durations \cup NonPositiveDurations) /\ drift = 0

\* any host
InitAnyHost == Built(Hosts, Durations) /\ drift = 0

\* Date.now() may advance between the reads of one handler
InitDrift == Constructed /\ drift \in 0..MaxSkew

\* the caller invokes start()
Start ==
    /\ mounted
    /\ IF isRunning
       THEN /\ Commit(start(Eng, clock, clock, clock))
            /\ UNCHANGED <<clock, onCompleteCalls, startedAt, ranMs, tickNow,
                           restarted>>
       ELSE \E now1 \in Nows(clock) : \E now2 \in Nows(now1) :
              LET fresh == pausedRemainingMs = Null
                  e == start([Eng EXCEPT !.calls = IF fresh THEN 0 ELSE @],
                             clock, now1, now2)
              IN /\ Cardinality(e.pending) <= MaxPending
                 /\ Commit(e)
                 /\ onCompleteCalls' = e.calls
                 /\ tickNow' = e.tickNow
                 /\ clock' = ClockAfter(pending, e, now1, now2)
                 /\ startedAt' = clock
                 /\ ranMs' = IF fresh THEN Null ELSE ranMs
                 /\ restarted' = IF fresh THEN Completed ELSE restarted
    /\ stopped' = FALSE
    /\ UNCHANGED <<durationMs, drift, host, thrown, view, hidden, mounted>>

\* the caller invokes pause()
Pause ==
    /\ mounted
    /\ LET e == pause(Eng)
       IN IF isRunning
          THEN /\ Commit([e EXCEPT !.pending = MarkStale(@)])
               /\ ranMs' = (IF ranMs = Null THEN 0 ELSE ranMs) + (clock - startedAt)
               /\ startedAt' = Null
               /\ tickNow' = Null
          ELSE /\ Commit(e)
               /\ UNCHANGED <<ranMs, startedAt, tickNow>>
    /\ stopped' = FALSE
    /\ UNCHANGED <<durationMs, drift, host, thrown, view, restarted, clock, hidden, mounted, onCompleteCalls>>

\* the caller invokes stop()
Stop ==
    /\ mounted
    /\ LET e == stop(Eng)
       IN Commit([e EXCEPT !.pending = MarkStale(@)])
    /\ startedAt' = Null
    /\ ranMs' = Null
    /\ tickNow' = Null
    /\ stopped' = TRUE
    /\ restarted' = FALSE
    /\ UNCHANGED <<durationMs, drift, host, thrown, view, clock, hidden, mounted, onCompleteCalls>>

\* the caller invokes reset()
Reset ==
    /\ mounted
    /\ LET e == reset(Eng)
       IN Commit([e EXCEPT !.pending = MarkStale(@)])
    /\ startedAt' = Null
    /\ ranMs' = Null
    /\ tickNow' = Null
    /\ stopped' = TRUE
    /\ restarted' = FALSE
    /\ UNCHANGED <<durationMs, drift, host, thrown, view, clock, hidden, mounted, onCompleteCalls>>

\* the host runs the callback of a timeout that is due: () => { tick() }
WakeUp ==
    /\ \E t \in pending :
         /\ t.due <= clock
         /\ \E now2 \in Nows(clock) :
              LET e == tick([Eng EXCEPT !.pending = pending \ {t}], clock, now2)
              IN /\ Commit(e)
                 /\ onCompleteCalls' = e.calls
                 /\ tickNow' = e.tickNow
                 /\ clock' = ClockAfter(pending \ {t}, e, clock, now2)
    /\ stopped' = FALSE
    /\ UNCHANGED <<durationMs, drift, host, thrown, view, restarted, hidden, mounted, startedAt, ranMs>>

\* the page changes visibility and the host dispatches visibilitychange
VisibilityChange ==
    /\ host = "page"
    /\ hidden' = ~hidden
    /\ IF mounted
       THEN \E now2 \in Nows(clock) :
              LET e == handleVisibilityChange(Eng, ~hidden, clock, now2)
              IN /\ Cardinality(e.pending) <= MaxPending
                 /\ Commit(e)
                 /\ onCompleteCalls' = e.calls
                 /\ tickNow' = e.tickNow
                 /\ clock' = ClockAfter(pending, e, clock, now2)
       ELSE UNCHANGED <<engine, tickNow, onCompleteCalls, clock>>
    /\ stopped' = FALSE
    /\ UNCHANGED <<durationMs, drift, host, thrown, view, restarted, mounted, startedAt, ranMs>>

\* the owning component unmounts: the onUnmounted hook
Unmount ==
    /\ mounted
    /\ mounted' = FALSE
    /\ Commit(clearTimer(Eng))
    /\ stopped' = FALSE
    /\ UNCHANGED <<durationMs, drift, host, thrown, view, restarted, clock, hidden, onCompleteCalls, startedAt,
                   ranMs, tickNow>>

\* real time passes
Advance ==
    /\ clock + Step <= MaxClock
    /\ clock' = clock + Step
    /\ UNCHANGED <<durationMs, drift, host, thrown, view, restarted, engine, hidden, mounted, onCompleteCalls,
                   startedAt, ranMs, tickNow, stopped>>

Next ==
    \/ Start
    \/ Pause
    \/ Stop
    \/ Reset
    \/ WakeUp
    \/ VisibilityChange
    \/ Unmount
    \/ Advance

Spec == Init /\ [][Next]_vars

\* ------------------------------------------- the timer view on the engine
\* :disabled of the Start/Pause/Resume button
StartDisabled == remainingMs <= 0

\* :disabled of the Stop button
StopDisabled == ~isRunning /\ ~isPaused

\* the operator clicks the first button: startButtonAction is pause while
\* running and start otherwise
ClickStartButton ==
    /\ ~StartDisabled
    /\ IF isRunning THEN Pause ELSE Start

\* the operator clicks the Stop button
ClickStopButton ==
    /\ ~StopDisabled
    /\ Stop

\* the engine driven through the view's two buttons only
NextView ==
    \/ ClickStartButton
    \/ ClickStopButton
    \/ WakeUp
    \/ VisibilityChange
    \/ Unmount
    \/ Advance

SpecView == Init /\ [][NextView]_vars

\* ------------------------------------ the view with its own interval countdown
\* stop() of the view: the interval is cleared and the display reset
TimerViewStopped ==
    [rem |-> TIMER_DURATION_MS, running |-> FALSE, id |-> Null, due |-> Null]

\* the Start button (disabled while running) calls start(): it sets isRunning
\* and installs the interval, first due one second later
TimerViewStart ==
    /\ viewMounted
    /\ ~viewIsRunning
    /\ viewIsRunning' = TRUE
    /\ intervalId' = 1
    /\ intervalDue' = clock + SecondMs
    /\ viewStartedAt' = clock
    /\ viewTickNow' = Null
    /\ UNCHANGED <<viewRemainingMs, viewMounted, clock, engineSide>>

\* the host runs the interval's callback, at its due time or later: one
\* second is taken off remainingMs; at zero or below stop() runs and
\* remainingMs is set to 0. The host keeps the interval on its grid or
\* re-bases it on the late callback.
TimerViewInterval ==
    /\ intervalId # Null
    /\ intervalDue <= clock
    /\ viewTickNow' = clock
    /\ IF viewRemainingMs - SecondMs <= 0
         THEN /\ viewRemainingMs' = 0
              /\ viewIsRunning' = TimerViewStopped.running
              /\ intervalId' = TimerViewStopped.id
              /\ intervalDue' = TimerViewStopped.due
         ELSE /\ viewRemainingMs' = viewRemainingMs - SecondMs
              /\ intervalDue' \in {intervalDue + SecondMs, clock + SecondMs}
              /\ UNCHANGED <<viewIsRunning, intervalId>>
    /\ UNCHANGED <<viewMounted, viewStartedAt, clock, engineSide>>

\* the Stop button (disabled unless running) calls stop()
TimerViewStop ==
    /\ viewMounted
    /\ viewIsRunning
    /\ viewRemainingMs' = TimerViewStopped.rem
    /\ viewIsRunning' = TimerViewStopped.running
    /\ intervalId' = TimerViewStopped.id
    /\ intervalDue' = TimerViewStopped.due
    /\ UNCHANGED <<viewMounted, viewStartedAt, viewTickNow, clock, engineSide>>

\* the view unmounts: the onUnmounted hook clears the interval
TimerViewUnmount ==
    /\ viewMounted
    /\ viewMounted' = FALSE
    /\ intervalId' = Null
    /\ intervalDue' = Null
    /\ UNCHANGED <<viewRemainingMs, viewIsRunning, viewStartedAt, viewTickNow,
                   clock, engineSide>>

NextTimerView ==
    \/ TimerViewStart
    \/ TimerViewStop
    \/ TimerViewInterval
    \/ TimerViewUnmount
    \/ Advance

SpecTimerView == Init /\ [][NextTimerView]_vars

SpecDrift == InitDrift /\ [][Next]_vars

SpecAnyDuration == InitAnyDuration /\ [][Next]_vars

SpecAnyHost == InitAnyHost /\ [][Next]_vars

\* the host's scheduling: real time keeps passing, and a timeout that is due
\* has its callback run
Fairness == WF_vars(Advance) /\ WF_vars(WakeUp)

\* a countdown left to run: start() and the host's events, with no pause(),
\* stop(), reset() or teardown
NextLive ==
    \/ Start
    \/ WakeUp
    \/ VisibilityChange
    \/ Advance

SpecLive == InitDrift /\ [][NextLive]_vars /\ Fairness

\* ------------------------------------------------------------------ claims
\* time run before the running segment began
RanBefore == IF ranMs = Null THEN 0 ELSE ranMs

\* C1: across one start-to-completed cycle onComplete is invoked exactly once:
\* never more than once, and once when the engine is completed.
C1_CompletesOnce ==
    /\ onCompleteCalls <= 1
    /\ Completed => onCompleteCalls = 1

\* C2: at most one wake-up is outstanding in every reachable state.
C2_SingleWakeUp == Cardinality(pending) <= 1

\* C3: a wake-up scheduled before a pause() or stop() never runs after that
\* call: a timeout that outlived the call stays outstanding for ever (it can
\* only leave the host's set by running).
C3_NoStaleWakeUp == [][\A t \in pending : t.stale => t \in pending']_vars

\* C4: the time spent running in one cycle, time before the pauses plus the
\* time from the last start() to the deadline, equals the configured duration.
C4_RoundTrip ==
    (isRunning /\ startedAt # Null) =>
        RanBefore + (deadline - startedAt) = durationMs

\* C5: while running without a pause since start() at T, the last tick, run at
\* T + d with d < D, left remainingMs = D - d.
C5_DeadlineCorrect ==
    (/\ isRunning
     /\ ranMs = Null
     /\ startedAt # Null
     /\ tickNow # Null
     /\ tickNow - startedAt < durationMs)
        => remainingMs = durationMs - (tickNow - startedAt)

\* C5 witness: a never-paused run whose last tick ran late, off the second
\* boundary, more than a second after start() and before the deadline.
C5_Witness ==
    /\ isRunning
    /\ ranMs = Null
    /\ tickNow # Null
    /\ tickNow - startedAt >= SecondMs
    /\ remainingMs > 0
    /\ remainingMs % SecondMs # 0
    /\ remainingMs = durationMs - (tickNow - startedAt)

\* C6: right after stop() or reset() the engine shows the full duration, is
\* neither running nor paused, holds no deadline and no paused remainder, and
\* another stop() or reset() changes nothing.
C6_StopResets ==
    stopped =>
        /\ remainingMs = durationMs
        /\ ~isRunning
        /\ ~isPaused
        /\ deadline = Null
        /\ pausedRemainingMs = Null
        /\ timeoutId = Null
        /\ stop(Eng) = Eng
        /\ reset(Eng) = Eng

\* C6 witness: stop() called on a completed engine.
C6_Witness == stopped /\ onCompleteCalls = 1 /\ remainingMs = durationMs

\* C7: remainingMs never grows while the engine stays running, nor when it
\* goes from paused to running.
C7_Monotone ==
    [][(isRunning' /\ (isRunning \/ isPaused)) => remainingMs' <= remainingMs]_vars

\* C7 witness: a resumed run in which a later tick has lowered remainingMs.
C7_Witness ==
    /\ isRunning
    /\ ranMs # Null
    /\ tickNow # Null
    /\ tickNow > startedAt
    /\ remainingMs < deadline - startedAt

\* C8: deadline is set only while running, pausedRemainingMs only while
\* paused, never both.
C8_Exclusive ==
    /\ deadline # Null => isRunning
    /\ pausedRemainingMs # Null => isPaused
    /\ ~(deadline # Null /\ pausedRemainingMs # Null)

\* C9: when the page becomes visible while the engine is running, the
\* listener sets remainingMs to max(0, deadline - now) at once, and completes
\* the countdown when the deadline has passed.
C9_Resync ==
    [][(mounted /\ hidden /\ ~hidden' /\ isRunning) =>
          /\ remainingMs' = Max(0, deadline - clock)
          /\ deadline <= clock =>
                (~isRunning' /\ onCompleteCalls' = onCompleteCalls + 1)]_vars

\* C9 witness: the page is visible again, the re-sync has just set
\* remainingMs from the deadline, and the first timeout of the run is overdue
\* and has still not fired.
C9_Witness ==
    /\ ~hidden
    /\ isRunning
    /\ tickNow = clock
    /\ remainingMs = deadline - clock
    /\ remainingMs < durationMs
    /\ timeoutId = 2
    /\ \E t \in pending : t.id = 1 /\ t.due < clock /\ ~t.stale

\* C10: an effective start() sets deadline = now + pausedRemainingMs when
\* paused, where pausedRemainingMs is the remainingMs shown since the pause,
\* and deadline = now + durationMs otherwise; it clears pausedRemainingMs.
C10_Resume ==
    [][(deadline' # deadline /\ deadline' # Null) =>
          /\ deadline' = clock + (IF isPaused THEN pausedRemainingMs
                                  ELSE durationMs)
          /\ isPaused => pausedRemainingMs = remainingMs
          /\ ~isPaused => pausedRemainingMs = Null
          /\ pausedRemainingMs' = Null]_vars

\* C10 witness: start() has just resumed a countdown paused with less than
\* the full duration left, and time has passed outside its running segments.
C10_Witness ==
    /\ isRunning
    /\ ranMs # Null
    /\ startedAt = clock
    /\ deadline = startedAt + remainingMs
    /\ remainingMs < durationMs
    /\ clock >= Epoch + RanBefore + Step

\* C11: the guarded operations change nothing of the engine: start() while
\* running, pause() while not running, and a visibility signal that hides the
\* page or arrives while the engine is not running.
C11_GuardedNoOps ==
    /\ [](isRunning => start(Eng, clock, clock, clock) = Eng)
    /\ [](~isRunning => pause(Eng) = Eng)
    /\ [][(hidden' # hidden /\ (hidden' \/ ~isRunning)) =>
             UNCHANGED <<engine, onCompleteCalls>>]_vars

\* C11 witness: the page has been hidden under a running engine whose
\* wake-up is still outstanding.
C11_Witness ==
    /\ mounted
    /\ hidden
    /\ isRunning
    /\ Cardinality(pending) = 1
    /\ remainingMs = durationMs
    /\ clock > startedAt

\* C12: a tick that finds the deadline reached while running leaves the
\* engine completed (remainingMs 0, not running, not paused, no wake-up
\* outstanding), and the engine then stays completed, with no further call of
\* onComplete, until stop() or start() replaces the deadline.
C12_StaysCompleted ==
    /\ [][(isRunning /\ onCompleteCalls' = onCompleteCalls + 1) =>
             (remainingMs' = 0 /\ ~isRunning' /\ ~isPaused' /\ pending' = {})]_vars
    /\ [][(Completed /\ ~isRunning' /\ deadline' = deadline) =>
             (Completed' /\ onCompleteCalls' = onCompleteCalls)]_vars

\* C13: remainingMs is never negative.
C13_NonNegative == remainingMs >= 0

\* C14: a non-positive durationMs is rejected at construction: the
\* constructor throws, so no engine shows zero or negative remaining time and
\* no countdown is ever started or completed from it.
C14_RejectsNonPositive ==
    durationMs <= 0 =>
        /\ thrown
        /\ ~isRunning
        /\ deadline = Null
        /\ onCompleteCalls = 0

\* C15: after the owning component has unmounted no wake-up and no re-sync
\* runs: the outstanding timeouts stay as they are, remainingMs never changes
\* and onComplete is never called.
C15_Teardown ==
    [][(~mounted /\ ~thrown) =>
          /\ pending' = pending
          /\ remainingMs' = remainingMs
          /\ onCompleteCalls' = onCompleteCalls]_vars

\* C16: on a host that provides no visibility signal, constructing the
\* engine does not throw.
C16_NeverThrows == host # "page" => ~thrown

\* C17: every wake-up the engine schedules has a delay of 1..1000 ms, fires
\* no later than the deadline, and fires a whole number of seconds before it.
C17_Aligned ==
    [][\A t \in pending' \ pending :
          ~t.stale =>
             /\ t.due - clock' \in 1..SecondMs
             /\ t.due <= deadline'
             /\ (deadline' - t.due) % SecondMs = 0]_vars

\* C18: the recompute is idempotent: a re-sync that runs at the instant at
\* which the recompute has already run (from start(), a wake-up or a re-sync)
\* leaves the engine as it was, with as many wake-ups outstanding and as many
\* calls of onComplete.
C18_Idempotent ==
    [][(mounted /\ host = "page" /\ hidden /\ ~hidden' /\ isRunning
          /\ tickNow = clock) =>
          /\ UNCHANGED <<remainingMs, isRunning, isPaused, deadline,
                         pausedRemainingMs, onCompleteCalls>>
          /\ Cardinality(pending') = Cardinality(pending)]_vars

\* C19: in the view, whenever the engine is completed at least one of the two
\* buttons is enabled, so the operator can start a new cycle.
C19_NeverStuck ==
    (mounted /\ Completed) => (~StartDisabled \/ ~StopDisabled)

\* C20: the remaining time the interval view shows while running is the
\* duration less the real time run: at every interval callback of a running
\* countdown, remainingMs = TIMER_DURATION_MS - (now - time of start()),
\* however late the callback ran.
C20_ViewDeadlineBased ==
    (viewIsRunning /\ viewTickNow # Null) =>
        viewRemainingMs = TIMER_DURATION_MS - (viewTickNow - viewStartedAt)

\* the last instant at which a wake-up of the running countdown can be due:
\* scheduleNext sets it for the deadline at the latest, or one second after
\* the later clock value it read when that one has reached the deadline
LastWakeUp == deadline + SecondMs + drift * Step

\* C21: with no pause(), stop() or teardown, a countdown that is running, and
\* whose wake-ups all fall on the modelled clock, leads to the completed state
\* with onComplete called.
C21_EventuallyCompletes ==
    (isRunning /\ LastWakeUp <= MaxClock) ~> (Completed /\ onCompleteCalls >= 1)

C21_Witness ==
    /\ mounted
    /\ Completed
    /\ onCompleteCalls = 1
    /\ pending = {}
    /\ deadline # Null
    /\ LastWakeUp <= MaxClock
    /\ clock >= deadline

\* C22: start() in the completed state begins a fresh full cycle: it sets
\* deadline = now + durationMs, isRunning and remainingMs = durationMs, and
\* the cycle so begun calls onComplete once: never more than once, and once
\* when it has ended.
C22_FreshCycle ==
    /\ [][(mounted /\ Completed /\ isRunning') =>
             /\ deadline' = clock + durationMs
             /\ remainingMs' = durationMs
             /\ ~isPaused'
             /\ restarted']_vars
    /\ [](restarted => onCompleteCalls <= 1)
    /\ []((restarted /\ Completed) => onCompleteCalls = 1)

\* C23: isRunning and isPaused are never both true, and isPaused is true
\* exactly when pausedRemainingMs is non-null.
C23_PauseFlags ==
    /\ ~(isRunning /\ isPaused)
    /\ isPaused <=> pausedRemainingMs # Null

C23_Witness ==
    /\ mounted
    /\ isPaused
    /\ ~isRunning
    /\ pausedRemainingMs # Null
    /\ pausedRemainingMs < durationMs
    /\ pending # {}
====
